---- MODULE Spec2Model ----
(***************************************************************************)
(* Model of the AI visibility monitor (scripts/shared_functions.py,        *)
(* scripts/main_run.py, scripts/retry_run.py).                             *)
(*                                                                         *)
(* Text is a sequence of characters, each character a one-element token    *)
(* ("a", "B", " ", ",").  Characters outside ASCII are written as a base   *)
(* letter followed by a mark: "cv" is c with caron, "a'" is a with acute,  *)
(* "NBSP" the no-break space, "fi_lig" the fi ligature, "COMB" a           *)
(* combining mark on its own.                                              *)
(***************************************************************************)
EXTENDS Integers, Sequences, FiniteSets, TLC

\* ------------------------------------------------------------ CONFIG
active_providers == <<"Perplexity", "Gemini">>
max_workers == 3
batch_size == 2
CONFIG_max_retries == 4
RETRY_CEILING == 10

\* ------------------------------------------------------------ helpers
RECURSIVE Flatten(_)
Flatten(ss) == IF ss = <<>> THEN <<>> ELSE Head(ss) \o Flatten(Tail(ss))

MapSeq(F(_), s) == [i \in 1..Len(s) |-> F(s[i])]

Range(s) == {s[i] : i \in 1..Len(s)}

Last(s) == s[Len(s)]

\* ------------------------------------------------------------ characters
UpperChars == <<"A","B","C","D","E","F","G","H","I","J","K","L","M",
                "N","O","P","Q","R","S","T","U","V","W","X","Y","Z",
                "A'","E'","I'","Cv","Rv","Sv","L/">>
LowerChars == <<"a","b","c","d","e","f","g","h","i","j","k","l","m",
                "n","o","p","q","r","s","t","u","v","w","x","y","z",
                "a'","e'","i'","cv","rv","sv","l/">>
AccentChars == <<"a'","e'","i'","cv","rv","sv","A'","E'","I'","Cv","Rv","Sv">>
AccentBase  == <<"a","e","i","c","r","s","A","E","I","C","R","S">>
DigitChars == {"0","1","2","3","4","5","6","7","8","9"}
SpaceChars == {" ", "TAB", "NBSP"}

IndexOf(s, c) == IF c \in Range(s) THEN CHOOSE i \in 1..Len(s) : s[i] = c ELSE 0

UpperSet == Range(UpperChars)
AccentSet == Range(AccentChars)
WordSet == Range(UpperChars) \cup Range(LowerChars) \cup DigitChars \cup {"_"}
LowerTable == [c \in UpperSet |-> LowerChars[IndexOf(UpperChars, c)]]
BaseTable == [c \in AccentSet |-> AccentBase[IndexOf(AccentChars, c)]]

\* unicodedata.normalize('NFKC', .): compatibility characters are replaced
NFKC(c) == IF c = "NBSP" THEN <<" ">>
           ELSE IF c = "fi_lig" THEN <<"f","i">>
           ELSE <<c>>

\* str.lower()
Lower(c) == IF c \in UpperSet THEN LowerTable[c] ELSE c

\* unicodedata.normalize('NFD', .): an accented letter becomes base + mark; a
\* letter with a stroke ("l/", "L/") has no decomposition
NFD(c) == IF c \in AccentSet THEN <<BaseTable[c], "COMB">> ELSE <<c>>

\* unicodedata.category(c) = 'Mn'
IsMn(c) == c = "COMB"

\* \w of the re module
IsWord(c) == c \in WordSet

\* \s of the re module, the separators of str.split()
IsSpace(c) == c \in SpaceChars

\* ' '.join(text.split())
RECURSIVE JoinSplit(_, _)
JoinSplit(s, acc) ==
  IF s = <<>> THEN (IF acc # <<>> /\ Last(acc) = " " THEN SubSeq(acc, 1, Len(acc) - 1) ELSE acc)
  ELSE IF IsSpace(Head(s))
       THEN JoinSplit(Tail(s), IF acc # <<>> /\ Last(acc) # " " THEN Append(acc, " ") ELSE acc)
       ELSE JoinSplit(Tail(s), Append(acc, Head(s)))

\* mutant: the combining marks are kept
NotMn_keep(c) == TRUE

NotMn(c) == ~IsMn(c)
PunctToSpace(c) == IF IsWord(c) \/ IsSpace(c) THEN c ELSE " "

clean_text_aggressive(text) ==
  IF text = <<>> THEN <<>>
  ELSE LET t1 == Flatten(MapSeq(NFKC, text))
           t2 == MapSeq(Lower, t1)
           t3 == SelectSeq(Flatten(MapSeq(NFD, t2)), NotMn)
           t4 == MapSeq(PunctToSpace, t3)
       IN JoinSplit(t4, <<>>)

\* ------------------------------------------------------------ re.finditer
\* positions are 0-based offsets, as match.start()
WordAt(text, j) == j >= 0 /\ j < Len(text) /\ IsWord(text[j + 1])
Boundary(text, p) == WordAt(text, p - 1) # WordAt(text, p)

MatchAt(pat, text, p, bounded) ==
  /\ p + Len(pat) <= Len(text)
  /\ \A k \in 1..Len(pat) : text[p + k] = pat[k]
  /\ bounded => (Boundary(text, p) /\ Boundary(text, p + Len(pat)))

RECURSIVE finditer(_, _, _, _)
finditer(pat, text, p, bounded) ==
  IF p > Len(text) THEN <<>>
  ELSE IF MatchAt(pat, text, p, bounded)
       THEN <<p>> \o finditer(pat, text, IF Len(pat) = 0 THEN p + 1 ELSE p + Len(pat), bounded)
       ELSE finditer(pat, text, p + 1, bounded)

\* ------------------------------------------------------------ ranker
NoPos == -1

Min(a, b) == IF a <= b THEN a ELSE b

\* mutant: only one-character keywords are matched between word boundaries
KeywordMatches_lt2(keyword_clean, text_clean) ==
  finditer(keyword_clean, text_clean, 0, Len(keyword_clean) < 2)

\* lines 579-584: short keywords are matched between word boundaries
KeywordMatches(keyword_clean, text_clean) ==
  finditer(keyword_clean, text_clean, 0, Len(keyword_clean) <= 2)

\* mutant: the position of the first matching keyword is kept
KeywordFold_first(acc, keyword, matches) ==
  IF matches = <<>> THEN acc
  ELSE [first_pos |-> IF acc.first_pos = NoPos THEN matches[1] ELSE acc.first_pos,
        matched_kws |-> Append(acc.matched_kws, keyword),
        total_mentions |-> acc.total_mentions + Len(matches)]

\* lines 586-593: the matches of one keyword folded into
\* (first_pos, matched_kws, total_mentions)
KeywordFold(acc, keyword, matches) ==
  IF matches = <<>> THEN acc
  ELSE [first_pos |-> IF acc.first_pos = NoPos THEN matches[1]
                      ELSE Min(acc.first_pos, matches[1]),
        matched_kws |-> Append(acc.matched_kws, keyword),
        total_mentions |-> acc.total_mentions + Len(matches)]

\* lines 575-593
RECURSIVE ScanKeywords(_, _, _)
ScanKeywords(keywords, text_clean, acc) ==
  IF keywords = <<>> THEN acc
  ELSE ScanKeywords(Tail(keywords), text_clean,
                    KeywordFold(acc, Head(keywords),
                                KeywordMatches(clean_text_aggressive(Head(keywords)),
                                               text_clean)))

\* lines 596-602
BrandMention(brand, r) ==
  IF r.first_pos # NoPos
  THEN <<[brand_name |-> brand.name, position |-> r.first_pos,
          matched_keywords |-> r.matched_kws,
          mention_count |-> r.total_mentions]>>
  ELSE <<>>

\* lines 567-602
RECURSIVE ScanBrands(_, _)
ScanBrands(brands, text_clean) ==
  IF brands = <<>> THEN <<>>
  ELSE BrandMention(Head(brands),
                    ScanKeywords(Head(brands).keywords, text_clean,
                                 [first_pos |-> NoPos, matched_kws |-> <<>>,
                                  total_mentions |-> 0]))
       \o ScanBrands(Tail(brands), text_clean)

\* mutant: a sort that puts the later of two equal positions first
RECURSIVE InsertByPosition_unstable(_, _)
InsertByPosition_unstable(sorted, m) ==
  IF sorted = <<>> THEN <<m>>
  ELSE IF Head(sorted).position < m.position
       THEN <<Head(sorted)>> \o InsertByPosition_unstable(Tail(sorted), m)
       ELSE <<m>> \o sorted

\* list.sort(key=position): stable
RECURSIVE InsertByPosition(_, _)
InsertByPosition(sorted, m) ==
  IF sorted = <<>> THEN <<m>>
  ELSE IF Head(sorted).position <= m.position
       THEN <<Head(sorted)>> \o InsertByPosition(Tail(sorted), m)
       ELSE <<m>> \o sorted

RECURSIVE SortByPosition(_, _)
SortByPosition(ms, acc) ==
  IF ms = <<>> THEN acc ELSE SortByPosition(Tail(ms), InsertByPosition(acc, Head(ms)))

\* mutant: enumerate counts from 0
Rankings_from_zero(all_mentions) ==
  [rank \in 1..Len(all_mentions) |->
     [brand_name |-> all_mentions[rank].brand_name,
      rank |-> rank - 1,
      position |-> all_mentions[rank].position,
      matched_keywords |-> all_mentions[rank].matched_keywords,
      mention_count |-> all_mentions[rank].mention_count]]

\* lines 608-615: brand_rankings as the sequence of its entries in insertion
\* (= rank) order
Rankings(all_mentions) ==
  [rank \in 1..Len(all_mentions) |->
     [brand_name |-> all_mentions[rank].brand_name,
      rank |-> rank,
      position |-> all_mentions[rank].position,
      matched_keywords |-> all_mentions[rank].matched_keywords,
      mention_count |-> all_mentions[rank].mention_count]]

find_all_brand_mentions(text, all_brands) ==
  Rankings(SortByPosition(ScanBrands(all_brands, clean_text_aggressive(text)), <<>>))

\* ------------------------------------------------------------ citations
Substring(pat, text) == \E p \in 0..Len(text) : MatchAt(pat, text, p, FALSE)

RankingEntry(brand_rankings, brand_name) ==
  LET hits == {i \in 1..Len(brand_rankings) : brand_rankings[i].brand_name = brand_name}
  IN IF hits = {} THEN <<>> ELSE <<brand_rankings[CHOOSE i \in hits : TRUE]>>

\* lines 640-649
FoundCitation(citations, brand_keywords) ==
  \E i \in 1..Len(citations) : \E k \in 1..Len(brand_keywords) :
    Substring(clean_text_aggressive(brand_keywords[k]),
              clean_text_aggressive(citations[i]))

\* lines 627-636 and 651-657; position_index 0 stands for None
Presence(brand_info, found_citation) ==
  IF brand_info # <<>>
  THEN [found_text |-> TRUE, found_citation |-> found_citation,
        position_index |-> brand_info[1].rank,
        matched_keywords |-> brand_info[1].matched_keywords,
        mention_count |-> brand_info[1].mention_count]
  ELSE [found_text |-> FALSE, found_citation |-> found_citation,
        position_index |-> 0,
        matched_keywords |-> <<>>,
        mention_count |-> 0]

analyze_presence_with_position(brand_name, brand_rankings, citations, brand_keywords) ==
  Presence(RankingEntry(brand_rankings, brand_name),
           FoundCitation(citations, brand_keywords))

\* lines 667-669: the brands one of whose keywords, lowercased, is in the url
Owners(url_lower, brands) ==
  {b \in 1..Len(brands) :
     \E k \in 1..Len(brands[b].keywords) :
       Substring(MapSeq(Lower, brands[b].keywords[k]), url_lower)}

\* line 670: the first brand of the list wins
FirstOwner(owners, brands) ==
  IF owners = {} THEN <<>>
  ELSE <<brands[CHOOSE b \in owners : \A c \in owners : b <= c].name>>

\* the owner's name as a one-element sequence, <<>> for None
identify_url_owner(url, brands) ==
  IF url = <<>> THEN <<>>
  ELSE FirstOwner(Owners(MapSeq(Lower, url), brands), brands)

\* ------------------------------------------------------------ connectors
None == [isNone |-> TRUE]

IsNone(v) == v.isNone

\* lines 305-339: one HTTP exchange with Perplexity; resp.raised stands for a
\* timeout or transport exception, resp.has_choices for a non-empty 'choices'
ask_perplexity(resp) ==
  IF resp.raised THEN None
  ELSE IF resp.status = 200
       THEN IF resp.has_choices
            THEN [isNone |-> FALSE, text |-> resp.text, citations |-> resp.citations,
                  tokens |-> resp.tokens]
            ELSE None
       ELSE None

\* lines 363-405: one HTTP exchange with Gemini; resp.has_choices stands for a
\* non-empty 'candidates'
ask_gemini(resp) ==
  IF resp.raised THEN None
  ELSE IF resp.status = 200
       THEN IF resp.has_choices
            THEN IF resp.text = <<>> THEN None
                 ELSE [isNone |-> FALSE, text |-> resp.text, citations |-> resp.citations,
                       tokens |-> resp.tokens]
            ELSE None
       ELSE None

\* time.sleep(2 ** attempt)
RECURSIVE Pow2(_)
Pow2(n) == IF n = 0 THEN 1 ELSE 2 * Pow2(n - 1)

wait_time(attempt) == Pow2(attempt)

\* lines 278-287: func[k] is what the k-th call of the thunk returns
RECURSIVE RetryLoop(_, _, _, _)
RetryLoop(func, max_retries, attempt, sleeps) ==
  IF attempt >= max_retries
  THEN [result |-> None, calls |-> attempt, sleeps |-> sleeps]
  ELSE LET result == func[attempt + 1]
       IN IF ~IsNone(result)
          THEN [result |-> result, calls |-> attempt + 1, sleeps |-> sleeps]
          ELSE RetryLoop(func, max_retries, attempt + 1,
                         IF attempt < max_retries - 1
                         THEN Append(sleeps, wait_time(attempt)) ELSE sleeps)

\* mutant: the loop gives up one attempt early
retry_with_backoff_short(func, max_retries) == RetryLoop(func, max_retries - 1, 0, <<>>)

retry_with_backoff(func, max_retries) == RetryLoop(func, max_retries, 0, <<>>)

\* lines 408-420: resps[k] is the HTTP exchange the k-th attempt meets
call_provider(provider, resp) ==
  IF provider = "Perplexity" THEN ask_perplexity(resp)
  ELSE IF provider = "Gemini" THEN ask_gemini(resp)
  ELSE None

get_ai_response(provider, resps) ==
  retry_with_backoff([k \in 1..Len(resps) |-> call_provider(provider, resps[k])],
                     CONFIG_max_retries)

\* ------------------------------------------------------------ judge
RawLower == <<"positive", "negative", "neutral", "yes", "no", "ano", "ne", "good", "maybe">>
RawUpper == <<"POSITIVE", "NEGATIVE", "NEUTRAL", "YES", "NO", "ANO", "NE", "GOOD", "MAYBE">>

\* str.upper() on the words a judge answer may carry
UpperStr(s) == IF IndexOf(RawLower, s) # 0 THEN RawUpper[IndexOf(RawLower, s)] ELSE s

\* mutant: the sentiment is upper-cased and kept
NormSentiment_kept(raw) == UpperStr(IF raw = "MISSING" THEN "NEUTRAL" ELSE raw)

NormSentiment(raw) ==
  LET sentiment == UpperStr(IF raw = "MISSING" THEN "NEUTRAL" ELSE raw)
  IN IF sentiment \notin {"POSITIVE", "NEGATIVE", "NEUTRAL"} THEN "NEUTRAL" ELSE sentiment

NormRecommendation(raw) ==
  LET recommendation == UpperStr(IF raw = "MISSING" THEN "NE" ELSE raw)
  IN IF recommendation = "YES" THEN "ANO"
     ELSE IF recommendation = "NO" THEN "NE"
     ELSE IF recommendation \notin {"ANO", "NE"} THEN "NE"
     ELSE recommendation

\* lines 493-512: later entries of the array overwrite earlier ones
RECURSIVE SentimentDict(_, _)
SentimentDict(judged, acc) ==
  IF judged = <<>> THEN acc
  ELSE LET item == Head(judged)
           entry == [sentiment |-> NormSentiment(item.sentiment),
                     recommendation |-> NormRecommendation(item.recommendation)]
           acc2 == [b \in DOMAIN acc \cup {item.brand} |->
                      IF b = item.brand THEN entry ELSE acc[b]]
       IN SentimentDict(Tail(judged), acc2)

EmptyDict == [b \in {} |-> 0]

\* lines 423-530.  jresp is the judge's HTTP exchange: raised (timeout or other
\* exception), status, has_candidates, finish_reason, body ("empty", "no_array",
\* "bad_json" or "array") and the parsed array.  The result is
\* [isNone, dict]: the function falls off its end, returning None, when the
\* answer has status 200 and no candidates.
get_batch_sentiment(text, mentioned_brands, jresp) ==
  IF mentioned_brands = <<>> THEN [isNone |-> FALSE, dict |-> EmptyDict]
  ELSE IF jresp.raised THEN [isNone |-> FALSE, dict |-> EmptyDict]
  ELSE IF jresp.status = 200
       THEN IF jresp.has_candidates
            THEN IF jresp.finish_reason = "SAFETY" THEN [isNone |-> FALSE, dict |-> EmptyDict]
                 ELSE IF jresp.body # "array" THEN [isNone |-> FALSE, dict |-> EmptyDict]
                 ELSE [isNone |-> FALSE, dict |-> SentimentDict(jresp.array, EmptyDict)]
            ELSE [isNone |-> TRUE, dict |-> EmptyDict]
       ELSE [isNone |-> FALSE, dict |-> EmptyDict]

\* ------------------------------------------------------------ catalog and network inputs
NumQueries == 2

QueryTexts == <<"q1", "q2", "q3", "q4">>

Query(n) == [query |-> QueryTexts[n], query_id |-> n]

\* the queries a ledger file may name
Items == <<Query(1), Query(2)>>

\* load_queries, lines 105-147: the active rows of the Queries sheet
LoadedQueries == [n \in 1..NumQueries |-> Query(n)]

BRANDS ==
  <<[name |-> "CSOB", category |-> "bank",
     keywords |-> << <<"Cv","S","O","B">> >>],
    [name |-> "Ceska sporitelna", category |-> "bank",
     keywords |-> << <<"Cv","e","s","k","a'"," ","s","p","o","rv","i","t","e","l","n","a">>,
                     <<"Cv","S">> >>]>>

TextBoth == <<"Cv","S",","," ","Cv","S","O","B">>
TextNone == <<"n","o">>
TextCsob == <<"Cv","S","O","B">>
TextE2E ==
  <<"B","e","s","t"," ","b","a","n","k"," ","i","s"," ","Cv","S","O","B",","," ",
    "a","l","s","o"," ","t","r","y"," ",
    "Cv","e","s","k","a'"," ","s","p","o","rv","i","t","e","l","n","a">>
CitCsob == <<"c","s","o","b",".","c","z">>

RespOk(text, citations) ==
  [raised |-> FALSE, status |-> 200, has_choices |-> TRUE, text |-> text,
   citations |-> citations, tokens |-> <<1, 2>>]
Resp503 ==
  [raised |-> FALSE, status |-> 503, has_choices |-> FALSE, text |-> <<>>,
   citations |-> <<>>, tokens |-> <<0, 0>>]
RespEmpty ==
  [raised |-> FALSE, status |-> 200, has_choices |-> TRUE, text |-> <<>>,
   citations |-> <<>>, tokens |-> <<1, 0>>]
RespTimeout ==
  [raised |-> TRUE, status |-> 0, has_choices |-> FALSE, text |-> <<>>,
   citations |-> <<>>, tokens |-> <<0, 0>>]

JudgeOk ==
  [raised |-> FALSE, status |-> 200, has_candidates |-> TRUE, finish_reason |-> "STOP",
   body |-> "array",
   array |-> <<[brand |-> "CSOB", sentiment |-> "positive", recommendation |-> "YES"],
               [brand |-> "Ceska sporitelna", sentiment |-> "GOOD",
                recommendation |-> "MISSING"]>>]
JudgeSafety == [JudgeOk EXCEPT !.finish_reason = "SAFETY"]
JudgeNoCandidates == [JudgeOk EXCEPT !.has_candidates = FALSE]
JudgeRateLimit == [JudgeOk EXCEPT !.status = 429]

\* the thunk meets n failing exchanges, then answering ones
FailThenOk(n, bad, good) == [k \in 1..CONFIG_max_retries |-> IF k <= n THEN bad ELSE good]

OTHER_PROVIDER == "Copilot"

\* what the network can do to one (query, provider) call: n failing exchanges
\* of one kind, then answers of one kind; one judge exchange
FailResps == {Resp503, RespEmpty}
OkResps == {RespOk(TextBoth, <<CitCsob>>), RespOk(TextNone, <<>>)}
\* answers that come at the first attempt
DirectResps == {RespOk(TextCsob, <<>>), RespOk(TextE2E, <<>>)}
JudgeResps == {JudgeOk, JudgeSafety, JudgeNoCandidates}

CallIOs ==
  {[resps |-> FailThenOk(n, bad, good), jresp |-> j] :
     n \in 0..CONFIG_max_retries, bad \in FailResps, good \in OkResps, j \in JudgeResps}
    \cup {[resps |-> FailThenOk(0, Resp503, good), jresp |-> j] :
            good \in DirectResps, j \in JudgeResps}

\* what the network does to one (query, provider) call of a run
RunIOs ==
  {[resps |-> FailThenOk(CONFIG_max_retries, Resp503, Resp503), jresp |-> JudgeOk],
   [resps |-> FailThenOk(0, Resp503, RespOk(TextBoth, <<CitCsob>>)), jresp |-> JudgeOk],
   [resps |-> FailThenOk(2, RespTimeout, RespOk(TextBoth, <<>>)), jresp |-> JudgeNoCandidates]}

\* ------------------------------------------------------------ processing
RESPONSE_LIMIT == 5000

Truncate(text, n) == SubSeq(text, 1, Min(Len(text), n))

Names(brand_rankings) == [i \in 1..Len(brand_rankings) |-> brand_rankings[i].brand_name]

\* lines 706-712 and 814-820 (the timestamp is left out)
FailedAttempt(item, provider, error) ==
  [query |-> item, provider |-> provider, error |-> error, retry_count |-> 1]

\* lines 716-731
log_entry(item, provider, response) ==
  [Query_ID |-> item.query_id, Query |-> item.query, Provider |-> provider,
   Response |-> Truncate(response.text, RESPONSE_LIMIT),
   Input_Tokens |-> response.tokens[1], Output_Tokens |-> response.tokens[2]]

\* lines 755-758
SentimentData(brand, batch_sentiments) ==
  IF brand.name \in DOMAIN batch_sentiments
  THEN batch_sentiments[brand.name]
  ELSE [sentiment |-> "", recommendation |-> ""]

\* lines 766-787; Rank is <<rank>>, or <<>> for the blank cell
DataRow(item, provider, brand, presence, sentiment_data) ==
  [Query_ID |-> item.query_id, Query |-> item.query, Provider |-> provider,
   Term_Version |-> presence.matched_keywords,
   Term_Name |-> brand.name,
   Term_Category |-> brand.category,
   Text_Presence |-> IF presence.found_text THEN 1 ELSE 0,
   Citation_Presence |-> IF presence.found_citation THEN 1 ELSE 0,
   Rank |-> IF presence.position_index # 0 THEN <<presence.position_index>> ELSE <<>>,
   Mention_Count |-> presence.mention_count,
   Sentiment |-> sentiment_data.sentiment,
   Recommendation |-> sentiment_data.recommendation]

\* lines 745-788
data_entry(item, provider, brand, brand_rankings, citations, batch_sentiments) ==
  DataRow(item, provider, brand,
          analyze_presence_with_position(brand.name, brand_rankings, citations,
                                         brand.keywords),
          SentimentData(brand, batch_sentiments))

\* lines 794-808
UrlRow(item, provider, citation, owner) ==
  [Query_ID |-> item.query_id, Query |-> item.query, Provider |-> provider,
   URL |-> citation,
   URL_Name |-> IF owner # <<>> /\ owner[1] # "" THEN owner[1] ELSE "",
   URL_Category |-> ""]

\* lines 791-810
url_entry(item, provider, citation, all_brands) ==
  UrlRow(item, provider, citation, identify_url_owner(citation, all_brands))

EmptyResults == [log |-> <<>>, data |-> <<>>, url |-> <<>>, failed |-> <<>>, calls |-> <<>>]

\* mutant: the 'continue' of line 713 is missing, the body goes on with
\* response = None and its TypeError is recorded by the except clause
on_no_response_fallthrough(item, provider, attempts) ==
  [log |-> <<>>, data |-> <<>>, url |-> <<>>,
   failed |-> <<FailedAttempt(item, provider, "API timeout/error"),
                FailedAttempt(item, provider, "TypeError")>>,
   calls |-> <<[query |-> item.query, provider |-> provider, attempts |-> attempts]>>]

\* lines 704-713: the gateway gave no answer
on_no_response(item, provider, attempts) ==
  [log |-> <<>>, data |-> <<>>, url |-> <<>>,
   failed |-> <<FailedAttempt(item, provider, "API timeout/error")>>,
   calls |-> <<[query |-> item.query, provider |-> provider, attempts |-> attempts]>>]

\* lines 738-742: the judge is asked only about mentioned brands
Judge(text, mentioned_brands, jresp) ==
  IF mentioned_brands # <<>>
  THEN get_batch_sentiment(text, mentioned_brands, jresp)
  ELSE [isNone |-> FALSE, dict |-> EmptyDict]

\* lines 716-820 once the rankings and the judge's result are known.  The only
\* statement of the body that can raise is the membership test of line 755,
\* when get_batch_sentiment returned None: the except clause of lines 812-820
\* records it; the log row is appended by then, no data row and no url row is
Rows(item, provider, all_brands, response, brand_rankings, batch_sentiments, attempts) ==
  IF batch_sentiments.isNone /\ all_brands # <<>>
  THEN [log |-> <<log_entry(item, provider, response)>>,
        data |-> <<>>,
        url |-> <<>>,
        failed |-> <<FailedAttempt(item, provider, "TypeError")>>,
        calls |-> <<[query |-> item.query, provider |-> provider, attempts |-> attempts]>>]
  ELSE [log |-> <<log_entry(item, provider, response)>>,
        data |-> [b \in 1..Len(all_brands) |->
                    data_entry(item, provider, all_brands[b], brand_rankings,
                               response.citations, batch_sentiments.dict)],
        url |-> [c \in 1..Len(response.citations) |->
                   url_entry(item, provider, response.citations[c], all_brands)],
        failed |-> <<>>,
        calls |-> <<[query |-> item.query, provider |-> provider, attempts |-> attempts]>>]

\* lines 735-742
Judged(item, provider, all_brands, response, jresp, brand_rankings, attempts) ==
  Rows(item, provider, all_brands, response, brand_rankings,
       Judge(response.text, Names(brand_rankings), jresp), attempts)

\* lines 715-820
on_response(item, provider, all_brands, response, jresp, attempts) ==
  Judged(item, provider, all_brands, response, jresp,
         find_all_brand_mentions(response.text, all_brands), attempts)

\* lines 702-713
Answer(item, provider, all_brands, io, r) ==
  IF IsNone(r.result)
  THEN on_no_response(item, provider, r.calls)
  ELSE on_response(item, provider, all_brands, r.result, io.jresp, r.calls)

\* one iteration of the loop of line 699; io = [resps, jresp] is what the
\* network answers to this provider's calls
process_provider(item, provider, all_brands, io) ==
  Answer(item, provider, all_brands, io, get_ai_response(provider, io.resps))

\* process_provider tabulated over the inputs the runs draw from, so that a
\* run's step looks the result up instead of scanning the text again
ProviderTable ==
  {[item |-> item, provider |-> provider, io |-> io,
    result |-> process_provider(item, provider, BRANDS, io)] :
     item \in Range(Items) \cup Range(LoadedQueries),
     provider \in Range(active_providers) \cup {OTHER_PROVIDER},
     io \in RunIOs \cup CallIOs}

TableRows(item, provider, io) ==
  {r \in ProviderTable : r.provider = provider /\ r.item = item /\ r.io = io}

provider_result(item, provider, all_brands, io) ==
  IF all_brands = BRANDS /\ TableRows(item, provider, io) # {}
  THEN (CHOOSE r \in TableRows(item, provider, io) : TRUE).result
  ELSE process_provider(item, provider, all_brands, io)

\* mutant: a provider's rows are put before the rows gathered so far
Extend_front(so_far, r) ==
  [log |-> r.log \o so_far.log, data |-> r.data \o so_far.data,
   url |-> r.url \o so_far.url, failed |-> r.failed \o so_far.failed,
   calls |-> r.calls \o so_far.calls]

\* lines 731, 788, 810 and 711: a provider's rows are appended to the task's lists
Extend(so_far, r) ==
  [log |-> so_far.log \o r.log, data |-> so_far.data \o r.data,
   url |-> so_far.url \o r.url, failed |-> so_far.failed \o r.failed,
   calls |-> so_far.calls \o r.calls]

\* mutant: a failed provider ends the loop
RECURSIVE ProcessProviders_abort(_, _, _, _, _)
ProcessProviders_abort(item, providers, all_brands, ios, so_far) ==
  IF providers = <<>> \/ so_far.failed # <<>> THEN so_far
  ELSE ProcessProviders_abort(item, Tail(providers), all_brands, Tail(ios),
                              Extend(so_far, provider_result(item, Head(providers),
                                                              all_brands, Head(ios))))

\* lines 699-822; ios[i] belongs to providers[i]
RECURSIVE ProcessProviders(_, _, _, _, _)
ProcessProviders(item, providers, all_brands, ios, so_far) ==
  IF providers = <<>> THEN so_far
  ELSE ProcessProviders(item, Tail(providers), all_brands, Tail(ios),
                        Extend(so_far, provider_result(item, Head(providers),
                                                       all_brands, Head(ios))))

process_single_query(item, providers, all_brands, ios) ==
  ProcessProviders(item, providers, all_brands, ios, EmptyResults)

\* ------------------------------------------------------------ failure ledger
Key(entry) == <<entry.query.query, entry.provider>>

Keys(entries) == {Key(entries[i]) : i \in 1..Len(entries)}

\* mutant: an entry whose key was seen replaces what was kept so far
RECURSIVE Deduplicate_restart(_, _, _)
Deduplicate_restart(merged, seen, unique_failed) ==
  IF merged = <<>> THEN unique_failed
  ELSE LET item == Head(merged)
       IN IF Key(item) \notin seen
          THEN Deduplicate_restart(Tail(merged), seen \cup {Key(item)},
                                   Append(unique_failed, item))
          ELSE Deduplicate_restart(Tail(merged), seen, <<item>>)

\* lines 904-911
RECURSIVE Deduplicate(_, _, _)
Deduplicate(merged, seen, unique_failed) ==
  IF merged = <<>> THEN unique_failed
  ELSE LET item == Head(merged)
       IN IF Key(item) \notin seen
          THEN Deduplicate(Tail(merged), seen \cup {Key(item)}, Append(unique_failed, item))
          ELSE Deduplicate(Tail(merged), seen, unique_failed)

\* mutant: the merged list is written without deduplication
save_failed_queries_append(new_items, existing) == existing \o new_items

\* lines 887-915: the content written to the file, given the file's content
\* (<<>> when there is no file)
save_failed_queries(new_items, existing) ==
  Deduplicate(existing \o new_items, {}, <<>>)

\* ------------------------------------------------------------ retry run
\* mutant: the ceiling test off by one
skip_entry_above(retry_count) == retry_count > RETRY_CEILING

\* retry_run.py line 52
skip_entry(retry_count) == retry_count >= RETRY_CEILING

\* mutant: the retry goes to the full provider list
retry_providers_all(provider) == active_providers

\* retry_run.py line 110
retry_providers(provider) == <<provider>>

\* retry_run.py lines 45-64: queries_to_retry in insertion order
RECURSIVE GroupRetries(_, _)
GroupRetries(items, grouped) ==
  IF items = <<>> THEN grouped
  ELSE LET item == Head(items)
           key == Key(item)
       IN IF skip_entry(item.retry_count) THEN GroupRetries(Tail(items), grouped)
          ELSE IF key \in {grouped[i].key : i \in 1..Len(grouped)}
               THEN GroupRetries(Tail(items), grouped)
               ELSE GroupRetries(Tail(items),
                                 Append(grouped, [key |-> key, query_obj |-> item.query,
                                                  provider |-> item.provider,
                                                  max_retry_count |-> item.retry_count]))

\* ------------------------------------------------------------ inputs
MaxLedger == 2
MaxNewFailed == 2

RetryCounts == {0, 1, RETRY_CEILING - 1, RETRY_CEILING, RETRY_CEILING + 1}

LedgerEntries(counts) ==
  [query : Range(Items), provider : Range(active_providers),
   error : {"API timeout/error"}, retry_count : counts]

SeqsUpTo(S, n) == UNION {[1..k -> S] : k \in 0..n}

DistinctKeys(entries) ==
  \A i, j \in 1..Len(entries) : Key(entries[i]) = Key(entries[j]) => i = j

\* the ledger files save_failed_queries can have written: one entry per key
LedgerFiles(counts) == {l \in SeqsUpTo(LedgerEntries(counts), MaxLedger) : DistinctKeys(l)}

\* ------------------------------------------------------------ state
VARIABLES
  pc,               \* where the running script is
  ledgerExists,     \* data/failed_queries.json exists
  ledger,           \* its content
  failed_items,     \* retry_run: the ledger as read at line 36
  queries_to_retry, \* retry_run: the grouped (query, provider) pairs
  idx,              \* retry_run: position of the loop of line 103
  all_results,      \* retry_run: the run's accumulated results
  calls,            \* the provider calls made so far by the run
  sheets,           \* the tabular store: rows of log_answers, data_analysis, url_analysis
  new_failed,       \* save_failed_queries: its argument
  prev_ledger,      \* save_failed_queries: the file's content as read at line 894
  saves,            \* save_failed_queries: number of calls made
  args,             \* a function called on its own: its arguments
  ret,              \* its return value
  returned,         \* whether it has returned
  tasks,            \* process_queries_parallel: the futures, one per query
  all_log,          \* process_queries_parallel: accumulated log rows
  all_data,         \* process_queries_parallel: accumulated data rows
  all_url,          \* process_queries_parallel: accumulated url rows
  all_failed,       \* process_queries_parallel: the run's failed list
  successful,       \* process_queries_parallel: queries without a failure
  results,          \* main_run: what process_queries_parallel returned
  store_raised,     \* main_run: a write to the tabular store has raised
  sheets_lock       \* sheets_lock (line 41) is held

ledgerVars == <<ledgerExists, ledger>>
retryVars == <<failed_items, queries_to_retry, idx, all_results, calls, sheets>>
saveVars == <<new_failed, prev_ledger, saves>>

callVars == <<args, ret, returned>>

parVars == <<tasks, all_log, all_data, all_url, all_failed, successful, results,
             store_raised, sheets_lock>>

vars == <<pc, ledgerVars, retryVars, saveVars, callVars, parVars>>

EmptyRun ==
  [log |-> <<>>, data |-> <<>>, url |-> <<>>, failed |-> <<>>,
   successful |-> 0, failed_count |-> 0]

EmptySheets == [log |-> <<>>, data |-> <<>>, url |-> <<>>]

RunInit ==
  /\ pc = "idle"
  /\ failed_items = <<>>
  /\ queries_to_retry = <<>>
  /\ idx = 1
  /\ all_results = EmptyRun
  /\ calls = <<>>
  /\ sheets = EmptySheets

SaveIdle ==
  /\ new_failed = <<>>
  /\ prev_ledger = <<>>
  /\ saves = 0

CallIdle ==
  /\ args = <<>>
  /\ ret = <<>>
  /\ returned = FALSE

ParIdle ==
  /\ tasks = <<>>
  /\ all_log = <<>>
  /\ all_data = <<>>
  /\ all_url = <<>>
  /\ all_failed = <<>>
  /\ successful = 0
  /\ results = <<>>
  /\ store_raised = FALSE
  /\ sheets_lock = FALSE

NoLedger ==
  /\ ledgerExists = FALSE
  /\ ledger = <<>>

Init ==
  /\ ledgerExists \in BOOLEAN
  /\ ledger \in LedgerFiles(RetryCounts)
  /\ ~ledgerExists => ledger = <<>>
  /\ RunInit
  /\ SaveIdle
  /\ CallIdle
  /\ ParIdle

\* retry_run.py lines 29-99: read the ledger, group, load credentials and catalog
RetryStart ==
  /\ pc = "idle"
  /\ UNCHANGED <<ledgerExists, ledger, idx, all_results, calls, sheets, saveVars, callVars, parVars>>
  /\ IF ~ledgerExists
     THEN pc' = "returned" /\ UNCHANGED <<failed_items, queries_to_retry>>
     ELSE /\ failed_items' = ledger
          /\ IF ledger = <<>>
             THEN pc' = "returned" /\ UNCHANGED queries_to_retry
             ELSE /\ queries_to_retry' = GroupRetries(ledger, <<>>)
                  /\ IF queries_to_retry' = <<>>
                     THEN pc' = "returned"
                     ELSE \E env_ok \in BOOLEAN :
                            pc' = IF env_ok THEN "retry_loop" ELSE "exit1"

\* retry_run.py lines 103-127: one iteration of the loop, the network
\* answering the calls with one of IOs
RetryStepWith(IOs) ==
  /\ pc = "retry_loop"
  /\ idx <= Len(queries_to_retry)
  /\ LET data == queries_to_retry[idx]
         providers == retry_providers(data.provider)
     IN \E ios \in [1..Len(providers) -> IOs] :
          LET result == process_single_query(data.query_obj, providers, BRANDS, ios)
          IN /\ all_results' =
                  [log |-> all_results.log \o result.log,
                   data |-> all_results.data \o result.data,
                   url |-> all_results.url \o result.url,
                   failed |-> all_results.failed \o result.failed,
                   successful |-> IF result.failed # <<>> THEN all_results.successful
                                  ELSE all_results.successful + 1,
                   failed_count |-> IF result.failed # <<>>
                                    THEN all_results.failed_count + Len(result.failed)
                                    ELSE all_results.failed_count]
             /\ calls' = calls \o result.calls
  /\ idx' = idx + 1
  /\ UNCHANGED <<pc, ledgerExists, ledger, failed_items, queries_to_retry, sheets, saveVars, callVars, parVars>>

RetryStep == RetryStepWith(RunIOs)

\* where a write to the store can raise: opening the workbook, or appending
\* to one of the three sheets
FailPoints == {"none", "init", "log", "data", "url"}

\* save_results_to_sheets_internal, lines 204-267: nothing to do without rows;
\* the three sheets are appended to in turn, and an exception leaves the
\* sheets written so far written
save_results_to_sheets_internal(store, log_rows, data_rows, url_rows, fail_at) ==
  IF log_rows = <<>> /\ data_rows = <<>> /\ url_rows = <<>>
  THEN [sheets |-> store, raised |-> FALSE]
  ELSE IF fail_at = "init" THEN [sheets |-> store, raised |-> TRUE]
  ELSE IF log_rows # <<>> /\ fail_at = "log" THEN [sheets |-> store, raised |-> TRUE]
  ELSE LET s1 == [store EXCEPT !.log = @ \o log_rows]
       IN IF data_rows # <<>> /\ fail_at = "data" THEN [sheets |-> s1, raised |-> TRUE]
          ELSE LET s2 == [s1 EXCEPT !.data = @ \o data_rows]
               IN IF url_rows # <<>> /\ fail_at = "url"
                  THEN [sheets |-> s2, raised |-> TRUE]
                  ELSE [sheets |-> [s2 EXCEPT !.url = @ \o url_rows], raised |-> FALSE]

\* retry_run.py lines 140-145: write the rows, then merge the failures into the
\* ledger; an exception of the store ends the script before line 145
RetrySave ==
  /\ pc = "retry_loop"
  /\ idx > Len(queries_to_retry)
  /\ \E fail_at \in FailPoints :
       LET w == save_results_to_sheets_internal(sheets, all_results.log, all_results.data,
                                                all_results.url, fail_at)
       IN /\ sheets' = w.sheets
          /\ IF w.raised
             THEN pc' = "crashed" /\ UNCHANGED <<ledger, ledgerExists>>
             ELSE /\ ledger' = save_failed_queries(all_results.failed,
                                                   IF ledgerExists THEN ledger ELSE <<>>)
                  /\ ledgerExists' = TRUE
                  /\ pc' = "saved"
  /\ UNCHANGED <<failed_items, queries_to_retry, idx, all_results, calls, saveVars, callVars,
                 parVars>>

Next == RetryStart \/ RetryStep \/ RetrySave

Spec == Init /\ [][Next]_vars

\* ------------------------------------------------------------ claims on the retry run
CallKeys == {<<calls[i].query, calls[i].provider>> : i \in 1..Len(calls)}

AttemptedKeys == {queries_to_retry[i].key : i \in 1..Len(queries_to_retry)}

LedgerCount(entries, key) ==
  {entries[i].retry_count : i \in {j \in 1..Len(entries) : Key(entries[j]) = key}}

\* C2: after a retry run that attempted a ledger pair and got its answer (the
\* pair is not among the run's failures), the ledger written at the end of the
\* run has no entry with that pair's key.
C2_RemovedOnceRetried ==
  pc = "saved" =>
    \A key \in AttemptedKeys :
      key \notin Keys(all_results.failed) => key \notin Keys(ledger)

\* C3: a ledger entry with retry_count n < 10 that the retry run attempted and
\* that failed again is in the ledger written at the end of the run with
\* retry_count n + 1.
C3_IncrementedOnRefail ==
  pc = "saved" =>
    \A i \in 1..Len(queries_to_retry) :
      queries_to_retry[i].key \in Keys(all_results.failed) =>
        LedgerCount(ledger, queries_to_retry[i].key)
          = {queries_to_retry[i].max_retry_count + 1}

C5_ExactlyTheSurvivingPairs ==
  pc \in {"saved", "crashed"} =>
    LET surviving == {Key(failed_items[i]) :
                        i \in {j \in 1..Len(failed_items) :
                                 failed_items[j].retry_count < 10}}
    IN /\ CallKeys = surviving
       /\ Len(calls) = Cardinality(surviving)

\* a provider that did not fail for the query stays uncalled, another entry is skipped
C5_Witness ==
  /\ pc = "saved"
  /\ Len(calls) = 1
  /\ Len(failed_items) = 2
  /\ \E p \in Range(active_providers) : <<calls[1].query, p>> \notin Keys(failed_items)

\* ------------------------------------------------------------ the merge on its own
MaxSaves == 2

SaveCounts == {1, 2}

SaveInit ==
  /\ ledgerExists \in BOOLEAN
  /\ ledger \in LedgerFiles(SaveCounts)
  /\ ~ledgerExists => ledger = <<>>
  /\ new_failed \in SeqsUpTo(LedgerEntries(SaveCounts), MaxNewFailed)
  /\ prev_ledger = <<>>
  /\ saves = 0
  /\ RunInit
  /\ CallIdle
  /\ ParIdle

\* save_failed_queries(new_failed, filepath), lines 887-915
Save ==
  /\ saves < MaxSaves
  /\ prev_ledger' = IF ledgerExists THEN ledger ELSE <<>>
  /\ ledger' = save_failed_queries(new_failed, prev_ledger')
  /\ ledgerExists' = TRUE
  /\ saves' = saves + 1
  /\ UNCHANGED <<pc, retryVars, new_failed, callVars, parVars>>

SaveNext == Save

SpecSave == SaveInit /\ [][SaveNext]_vars

MaxOf(S) == CHOOSE m \in S : \A n \in S : n <= m

\* C1: for every (query.text, provider) key that is both in the existing ledger
\* and in the new failures, the entry written is the one with the higher
\* retry_count (new 2 against existing 1 leaves 2).
C1_HigherCountKept ==
  saves = 1 =>
    \A key \in Keys(prev_ledger) \cap Keys(new_failed) :
      LedgerCount(ledger, key)
        = {MaxOf(LedgerCount(prev_ledger, key) \cup LedgerCount(new_failed, key))}

\* C6: merging a ledger with itself as the new failures writes back the same
\* entries, and a second save of the same new failures leaves the ledger as
\* the first save wrote it.
C6_MergeIdempotent ==
  /\ (saves >= 1 /\ new_failed = prev_ledger) => ledger = prev_ledger
  /\ saves >= 2 => ledger = prev_ledger

C6_Witness ==
  /\ saves = 2
  /\ new_failed = prev_ledger
  /\ Len(ledger) >= 2

\* ------------------------------------------------------------ process_single_query on its own
ProviderLists ==
  {providers \in SeqsUpTo(Range(active_providers) \cup {OTHER_PROVIDER}, 2) :
     providers # <<>> /\ (Len(providers) = 2 => providers[1] # providers[2])}

PsqInit ==
  /\ args \in {a \in [item : Range(Items), providers : ProviderLists,
                      ios : SeqsUpTo(CallIOs, 2)] : Len(a.ios) = Len(a.providers)}
  /\ ret = <<>>
  /\ returned = FALSE
  /\ RunInit
  /\ NoLedger
  /\ SaveIdle
  /\ ParIdle

\* process_single_query(item, providers, all_brands, ...), lines 678-822
ProcessSingleQuery ==
  /\ ~returned
  /\ ret' = process_single_query(args.item, args.providers, BRANDS, args.ios)
  /\ returned' = TRUE
  /\ UNCHANGED <<pc, ledgerVars, retryVars, saveVars, parVars, args>>

PsqNext == ProcessSingleQuery

SpecPsq == PsqInit /\ [][PsqNext]_vars

RowsOf(rows, provider) == SelectSeq(rows, LAMBDA r : r.Provider = provider)

FailedOf(failed, provider) == SelectSeq(failed, LAMBDA f : f.provider = provider)

\* every attempt of the gateway call of the i-th provider returns null
AlwaysNull(i) ==
  \A k \in 1..CONFIG_max_retries :
    IsNone(call_provider(args.providers[i], args.ios[i].resps[k]))

\* C7: a provider whose gateway call returns null on every attempt contributes
\* exactly one FailedAttempt, with retry_count 1 and error "API timeout/error",
\* and no data row and no url row; and no pair with a FailedAttempt has a data
\* row or a url row in the same result.
C7_FailureHasNoRows ==
  returned =>
    /\ \A i \in 1..Len(args.providers) :
         AlwaysNull(i) =>
           /\ FailedOf(ret.failed, args.providers[i])
                = <<[query |-> args.item, provider |-> args.providers[i],
                     error |-> "API timeout/error", retry_count |-> 1]>>
           /\ RowsOf(ret.data, args.providers[i]) = <<>>
           /\ RowsOf(ret.url, args.providers[i]) = <<>>
    /\ \A f \in Range(ret.failed) :
         /\ RowsOf(ret.data, f.provider) = <<>>
         /\ RowsOf(ret.url, f.provider) = <<>>

\* one provider never answers, the other answers and has its rows
C7_Witness ==
  /\ returned
  /\ Len(args.providers) = 2
  /\ AlwaysNull(1)
  /\ Len(ret.failed) = 1
  /\ ret.data # <<>>
  /\ ret.url # <<>>

\* C8: the result has exactly one log row per requested provider: on success
\* with the truncated answer text and the token usage, on a failed call with
\* zero token counts; so there are as many log rows as providers.
C8_OneLogRowPerProvider ==
  returned =>
    /\ Len(ret.log) = Len(args.providers)
    /\ \A i \in 1..Len(args.providers) :
         LET rows == RowsOf(ret.log, args.providers[i])
         IN /\ Len(rows) = 1
            /\ AlwaysNull(i) => rows[1].Input_Tokens = 0 /\ rows[1].Output_Tokens = 0

\* every exchange of the gateway call of the i-th provider is an HTTP 200
\* whose answer text is empty
EmptyAnswers(i) ==
  \A k \in 1..CONFIG_max_retries :
    LET resp == args.ios[i].resps[k]
    IN ~resp.raised /\ resp.status = 200 /\ resp.text = <<>>

\* C12: for Perplexity and for Gemini alike, an HTTP 200 with an empty answer
\* text is a failed attempt: the provider call reports null to the retry
\* wrapper, and when every attempt ends that way the pair has a FailedAttempt
\* and no data row.
C12_EmptyAnswerIsFailure ==
  returned =>
    \A i \in 1..Len(args.providers) :
      (args.providers[i] \in Range(active_providers) /\ EmptyAnswers(i)) =>
        /\ AlwaysNull(i)
        /\ FailedOf(ret.failed, args.providers[i]) # <<>>
        /\ RowsOf(ret.data, args.providers[i]) = <<>>

\* ------------------------------------------------------------ retry_with_backoff on its own
MaxAttempts == 6

ThunkResults == {None, [isNone |-> FALSE, value |-> 1], [isNone |-> FALSE, value |-> 2]}

RwbInit ==
  /\ args \in [func : [1..MaxAttempts -> ThunkResults], max_retries : 1..MaxAttempts]
  /\ ret = <<>>
  /\ returned = FALSE
  /\ RunInit
  /\ NoLedger
  /\ SaveIdle
  /\ ParIdle

\* retry_with_backoff(func, max_retries), lines 273-287
RetryWithBackoff ==
  /\ ~returned
  /\ ret' = retry_with_backoff(args.func, args.max_retries)
  /\ returned' = TRUE
  /\ UNCHANGED <<pc, ledgerVars, retryVars, saveVars, parVars, args>>

RwbNext == RetryWithBackoff

SpecRwb == RwbInit /\ [][RwbNext]_vars

Answering == {k \in 1..args.max_retries : ~IsNone(args.func[k])}

FirstAnswer == CHOOSE k \in Answering : \A j \in Answering : k <= j

\* C10: the thunk is called at most max_attempts times; the first non-null
\* result ends the loop and is returned with no further call; when every
\* attempt returns null the wrapper returns null.  A thunk returning null
\* twice and then a result is called 3 times, its result is returned, and the
\* two delays in between do not decrease.
C10_RetryWrapper ==
  returned =>
    /\ ret.calls <= args.max_retries
    /\ IF Answering # {}
       THEN ret.calls = FirstAnswer /\ ret.result = args.func[FirstAnswer]
       ELSE ret.calls = args.max_retries /\ IsNone(ret.result)
    /\ (Answering # {} /\ FirstAnswer = 3) =>
         /\ ret.calls = 3
         /\ Len(ret.sleeps) = 2
         /\ ret.sleeps[1] <= ret.sleeps[2]

C10_Witness ==
  /\ returned
  /\ args.max_retries = 4
  /\ IsNone(args.func[1]) /\ IsNone(args.func[2]) /\ ~IsNone(args.func[3])
  /\ ret.calls = 3
  /\ ret.sleeps = <<1, 2>>

\* C11: the sleep after attempt k (k = 0, 1, ...) of the retry wrapper is
\* min(initial_delay * 2^k, cap) with cap = 10, so that no sleep is longer
\* than 10.
C11_DelayCapped ==
  returned =>
    \A k \in 1..Len(ret.sleeps) :
      /\ ret.sleeps[k] = Min(1 * Pow2(k - 1), 10)
      /\ ret.sleeps[k] <= 10

\* ---------------------------------------------------------------------------
\* The main run: main_run.py and process_queries_parallel
\* (shared_functions.py lines 825-881)
\* ---------------------------------------------------------------------------

ParLedgers == {l \in LedgerFiles({1}) : Len(l) <= 1}

ParInit ==
  /\ ledgerExists \in BOOLEAN
  /\ ledger \in ParLedgers
  /\ ~ledgerExists => ledger = <<>>
  /\ RunInit
  /\ SaveIdle
  /\ CallIdle
  /\ ParIdle

TasksIn(state) == {n \in DOMAIN tasks : tasks[n].state = state}

\* main_run.py lines 27-68 and shared_functions.py lines 829-849: the keys,
\* the workbook and the catalog are loaded (a failure exits with status 1),
\* then one task per query is submitted to the pool
MainStart ==
  /\ pc = "idle"
  /\ \E loaded \in BOOLEAN :
       IF loaded
       THEN /\ tasks' = [n \in 1..NumQueries |->
                           [state |-> "queued", item |-> LoadedQueries[n],
                            ios |-> <<>>, result |-> EmptyResults]]
            /\ pc' = "pool"
       ELSE /\ pc' = "exit1"
            /\ UNCHANGED tasks
  /\ UNCHANGED <<ledgerVars, retryVars, saveVars, callVars, all_log, all_data, all_url,
                 all_failed, successful, results, store_raised, sheets_lock>>

\* ThreadPoolExecutor(max_workers), line 846: a free worker takes a queued task
TaskStartAt(at, n) ==
  /\ pc \in at
  /\ n \in TasksIn("queued")
  /\ Cardinality(TasksIn("running")) < max_workers
  /\ tasks' = [tasks EXCEPT ![n].state = "running"]
  /\ UNCHANGED <<pc, ledgerVars, retryVars, saveVars, callVars, all_log, all_data, all_url,
                 all_failed, successful, results, store_raised, sheets_lock>>

\* the worker runs process_single_query(item, active_providers, all_brands),
\* line 848
TaskFinishAt(at, n) ==
  /\ pc \in at
  /\ n \in TasksIn("running")
  /\ \E ios \in [1..Len(active_providers) -> RunIOs] :
       tasks' = [tasks EXCEPT ![n].state = "done",
                              ![n].ios = ios,
                              ![n].result = process_single_query(tasks[n].item,
                                                                 active_providers,
                                                                 BRANDS, ios)]
  /\ UNCHANGED <<pc, ledgerVars, retryVars, saveVars, callVars, all_log, all_data, all_url,
                 all_failed, successful, results, store_raised, sheets_lock>>

\* mutant: the accumulators are not cleared after a write
after_flush_keep(rows) == rows

\* line 867: the accumulators start again from empty lists
after_flush(rows) == <<>>

\* the workers run while the collecting thread waits in as_completed
TaskStart(n) == TaskStartAt({"pool"}, n)

TaskFinish(n) == TaskFinishAt({"pool"}, n)

\* one turn of the as_completed loop, lines 851-870: the task's rows join the
\* accumulators; at batch_size log rows the accumulators are written and
\* cleared, unless the write raises, which the loop's except swallows
Collect(n) ==
  /\ pc = "pool"
  /\ n \in TasksIn("done")
  /\ LET result == tasks[n].result
         log2   == all_log \o result.log
         data2  == all_data \o result.data
         url2   == all_url \o result.url
     IN /\ all_failed' = all_failed \o result.failed
        /\ successful' = IF result.failed = <<>> THEN successful + 1 ELSE successful
        /\ IF Len(log2) >= batch_size
           THEN \E fail_at \in FailPoints :
                  LET w == save_results_to_sheets_internal(sheets, log2, data2, url2, fail_at)
                  IN /\ sheets' = w.sheets
                     /\ store_raised' = (store_raised \/ w.raised)
                     /\ IF w.raised
                        THEN all_log' = log2 /\ all_data' = data2 /\ all_url' = url2
                        ELSE /\ all_log' = after_flush(log2)
                             /\ all_data' = after_flush(data2)
                             /\ all_url' = after_flush(url2)
           ELSE /\ all_log' = log2 /\ all_data' = data2 /\ all_url' = url2
                /\ UNCHANGED <<sheets, store_raised>>
  /\ tasks' = [tasks EXCEPT ![n].state = "collected"]
  /\ UNCHANGED <<pc, ledgerVars, failed_items, queries_to_retry, idx, all_results, calls,
                 saveVars, callVars, results, sheets_lock>>

AllCollected == pc = "pool" /\ TasksIn("collected") = DOMAIN tasks

\* lines 872-881: what is left in the accumulators is written; a raise leaves
\* the function, and main_run.py lines 75-77 exit with status 1
FinalSave ==
  /\ AllCollected
  /\ \E fail_at \in FailPoints :
       LET w == save_results_to_sheets_internal(sheets, all_log, all_data, all_url, fail_at)
       IN /\ sheets' = w.sheets
          /\ store_raised' = (store_raised \/ w.raised)
          /\ IF w.raised
             THEN pc' = "exit1" /\ UNCHANGED results
             ELSE /\ pc' = "ledger_save"
                  /\ results' = [successful |-> successful, failed |-> all_failed,
                                 failed_count |-> Len(all_failed)]
  /\ UNCHANGED <<ledgerVars, failed_items, queries_to_retry, idx, all_results, calls,
                 saveVars, callVars, tasks, all_log, all_data, all_url, all_failed,
                 successful, sheets_lock>>

\* main_run.py lines 82-104: the failed list is merged into the ledger, and a
\* failure rate above 30 % exits with status 1
MainFinish ==
  /\ pc = "ledger_save"
  /\ ledger' = save_failed_queries(results.failed, IF ledgerExists THEN ledger ELSE <<>>)
  /\ ledgerExists' = TRUE
  /\ pc' = IF results.failed_count * 10 > 3 * (results.successful + results.failed_count)
           THEN "exit1" ELSE "exit0"
  /\ UNCHANGED <<retryVars, saveVars, callVars, parVars>>

ParNext ==
  \/ MainStart
  \/ \E n \in 1..NumQueries : TaskStart(n)
  \/ \E n \in 1..NumQueries : TaskFinish(n)
  \/ \E n \in 1..NumQueries : Collect(n)
  \/ FinalSave
  \/ MainFinish

SpecPar == ParInit /\ [][ParNext]_vars

\* the rows of one (query, provider) pair in a sequence of rows
PairRows(rows, item, provider) ==
  SelectSeq(rows, LAMBDA r : r.Query = item.query /\ r.Provider = provider)

PairFailed(failed, item, provider) ==
  \E i \in 1..Len(failed) :
    failed[i].provider = provider /\ failed[i].query.query = item.query

\* C9: once every task has been collected, every (query, provider) pair of
\* the run has been called, whatever happened to the other provider of its
\* query and to the other queries: a pair whose provider answered has its log
\* row, and one data row per brand unless the pair is on the failed list; a
\* pair whose provider gave nothing is on the failed list; and every row and
\* every failure of every task is in the orchestrator's hands (written to the
\* store or still accumulated)
C9_FailuresIsolated ==
  AllCollected =>
    \A n \in DOMAIN tasks :
      LET item   == tasks[n].item
          result == tasks[n].result
      IN /\ \A i \in 1..Len(active_providers) :
              LET provider == active_providers[i]
                  answer   == get_ai_response(provider, tasks[n].ios[i].resps).result
              IN /\ \E c \in 1..Len(result.calls) :
                      /\ result.calls[c].query = item.query
                      /\ result.calls[c].provider = provider
                 /\ IF IsNone(answer)
                    THEN PairFailed(result.failed, item, provider)
                    ELSE /\ Len(PairRows(result.log, item, provider)) = 1
                         /\ \/ PairFailed(result.failed, item, provider)
                            \/ Len(PairRows(result.data, item, provider)) = Len(BRANDS)
         /\ Range(result.log) \subseteq Range(sheets.log \o all_log)
         /\ Range(result.data) \subseteq Range(sheets.data \o all_data)
         /\ Range(result.url) \subseteq Range(sheets.url \o all_url)
         /\ Range(result.failed) \subseteq Range(all_failed)

\* a run where one provider of a query failed and the other answered, and
\* another query lost nothing
C9_Witness ==
  /\ AllCollected
  /\ \E n \in DOMAIN tasks :
       /\ Len(tasks[n].result.failed) = 1
       /\ tasks[n].result.failed[1].provider = active_providers[1]
       /\ Len(tasks[n].result.data) = Len(BRANDS)
       /\ PairRows(sheets.data \o all_data, tasks[n].item, active_providers[2]) # <<>>
       /\ \E m \in DOMAIN tasks :
            /\ tasks[m].result.failed = <<>>
            /\ m # n
            /\ Len(tasks[m].result.data) = Len(BRANDS) * Len(active_providers)

\* the rows (field "log", "data", "url") or failures (field "failed") returned
\* by the tasks collected so far
RECURSIVE TaskRows(_, _)
TaskRows(n, field) ==
  IF n = 0 THEN <<>>
  ELSE TaskRows(n - 1, field)
       \o (IF tasks[n].state = "collected" THEN tasks[n].result[field] ELSE <<>>)

Count(rows, r) == Cardinality({i \in 1..Len(rows) : rows[i] = r})

\* every returned row is among the held ones once (as often as it was
\* returned), and nothing else is
ExactlyOnce(held, returned_rows) ==
  /\ Len(held) = Len(returned_rows)
  /\ \A r \in Range(returned_rows) : Count(held, r) = Count(returned_rows, r)

\* process_queries_parallel has returned to main_run.py
ParReturned == DOMAIN results # {}

\* while the loop runs, a row is either written or accumulated
NothingLostOrDoubled ==
  /\ ExactlyOnce(sheets.log \o all_log, TaskRows(Len(tasks), "log"))
  /\ ExactlyOnce(sheets.data \o all_data, TaskRows(Len(tasks), "data"))
  /\ ExactlyOnce(sheets.url \o all_url, TaskRows(Len(tasks), "url"))
  /\ ExactlyOnce(all_failed, TaskRows(Len(tasks), "failed"))

AllWrittenOnce ==
  /\ TasksIn("collected") = DOMAIN tasks
  /\ ExactlyOnce(sheets.log, TaskRows(Len(tasks), "log"))
  /\ ExactlyOnce(sheets.data, TaskRows(Len(tasks), "data"))
  /\ ExactlyOnce(sheets.url, TaskRows(Len(tasks), "url"))
  /\ ExactlyOnce(results.failed, TaskRows(Len(tasks), "failed"))

\* a turn of the as_completed loop that wrote to the store
Flushed == pc = "pool" /\ pc' = "pool" /\ sheets' # sheets

AttemptedPairs == Len(tasks) * Len(active_providers)

\* main_run.py has gone through its lines 85-104
ProcessingCompleted == ParReturned /\ pc \in {"exit0", "exit1"}

\* C20: a main run that completed processing exits with a non-zero status if
\* the number of failed (query, provider) pairs divided by the number of
\* attempted (query, provider) pairs exceeds 30 %, and with status zero
\* otherwise.
C20_ExitStatus ==
  ProcessingCompleted =>
    (pc = "exit1" <=> results.failed_count * 10 > 3 * AttemptedPairs)


\* ---------------------------------------------------------------------------
\* find_all_brand_mentions on its own (shared_functions.py lines 559-617)
\* ---------------------------------------------------------------------------
MaxText == 5

RankAlphabet == {"a", "B", " ", ","}

Foo(keywords) == [name |-> "Foo", category |-> "", keywords |-> keywords]

Bar(keywords) == [name |-> "Bar", category |-> "", keywords |-> keywords]

\* brand catalogs: one- and two-character keywords, a keyword that overlaps
\* itself, keywords that differ in case and accent only, brands in both orders
RankCatalogs ==
  {<<Foo(<< <<"a">> >>), Bar(<< <<"b">> >>)>>,
   <<Bar(<< <<"b">> >>), Foo(<< <<"a">> >>)>>,
   <<Foo(<< <<"a","b","a">>, <<"b">> >>), Bar(<< <<"a","b">> >>)>>,
   <<Foo(<< <<"a">> >>), Bar(<< <<"A'">> >>)>>,
   <<Foo(<< <<"B","a","b">>, <<"a"," ","b">> >>), Bar(<< <<"b","a">>, <<"a">> >>)>>,
   BRANDS}

RankTexts == SeqsUpTo(RankAlphabet, MaxText) \cup {TextBoth, TextCsob, TextE2E}

TextFooBarFoo == <<"a", " ", "B", " ", "a">>

RankInit ==
  /\ args \in [text : RankTexts, all_brands : RankCatalogs]
  /\ ret = <<>>
  /\ returned = FALSE
  /\ RunInit
  /\ NoLedger
  /\ SaveIdle
  /\ ParIdle

\* find_all_brand_mentions(text, all_brands), lines 559-617
FindAllBrandMentions ==
  /\ ~returned
  /\ ret' = find_all_brand_mentions(args.text, args.all_brands)
  /\ returned' = TRUE
  /\ UNCHANGED <<pc, ledgerVars, retryVars, saveVars, parVars, args>>

RankNext == FindAllBrandMentions

SpecRank == RankInit /\ [][RankNext]_vars

\* the offsets of the normalized text where the normalized keyword stands
SubstringAt(pat, text, p) ==
  /\ p + Len(pat) <= Len(text)
  /\ SubSeq(text, p + 1, p + Len(pat)) = pat

\* ... and where it stands as a whole word
WholeWordAt(pat, text, p) ==
  /\ SubstringAt(pat, text, p)
  /\ p = 0 \/ ~IsWord(text[p])
  /\ p + Len(pat) = Len(text) \/ ~IsWord(text[p + Len(pat) + 1])

Occurrences(pat, text) ==
  IF Len(pat) <= 2
  THEN {p \in 0..Len(text) : WholeWordAt(pat, text, p)}
  ELSE {p \in 0..Len(text) : SubstringAt(pat, text, p)}

\* the occurrences counted from left to right, one that overlaps a counted
\* one being passed over
Counted(occ, len) ==
  CHOOSE M \in SUBSET occ :
    \A o \in occ : o \in M <=> ~\E m \in M : m < o /\ o < m + len

SetMin(S) == CHOOSE x \in S : \A y \in S : x <= y

KeywordOccurrences(brand, k, text_clean) ==
  Occurrences(clean_text_aggressive(brand.keywords[k]), text_clean)

BrandOccurrences(brand, text_clean) ==
  UNION {KeywordOccurrences(brand, k, text_clean) : k \in 1..Len(brand.keywords)}

RECURSIVE SumCounts(_, _, _)
SumCounts(brand, k, text_clean) ==
  IF k = 0 THEN 0
  ELSE SumCounts(brand, k - 1, text_clean)
       + Cardinality(Counted(KeywordOccurrences(brand, k, text_clean),
                             Len(clean_text_aggressive(brand.keywords[k]))))

CatalogIndex(all_brands, name) == CHOOSE b \in 1..Len(all_brands) : all_brands[b].name = name

RankedNames == {ret[i].brand_name : i \in 1..Len(ret)}

\* C13: the ranking holds exactly the brands with a keyword match; its K
\* brands have the ranks 1..K, once each, by ascending earliest match
\* position, two brands of equal position in catalog order.  In a text with
\* Foo, then Bar, then Foo again, Foo has rank 1 and Bar rank 2.
C13_RankedByEarliestMatch ==
  returned =>
    /\ RankedNames =
         {args.all_brands[b].name : b \in
            {c \in 1..Len(args.all_brands) :
               BrandOccurrences(args.all_brands[c], clean_text_aggressive(args.text)) # {}}}
    /\ \A i \in 1..Len(ret) : ret[i].rank = i
    /\ \A i, j \in 1..Len(ret) :
         i < j =>
           /\ ret[i].brand_name # ret[j].brand_name
           /\ \/ ret[i].position < ret[j].position
              \/ /\ ret[i].position = ret[j].position
                 /\ CatalogIndex(args.all_brands, ret[i].brand_name)
                      < CatalogIndex(args.all_brands, ret[j].brand_name)
    /\ (args.text = TextFooBarFoo /\ args.all_brands[1].keywords = << <<"a">> >>
          /\ Len(args.all_brands[2].keywords) = 1) =>
         /\ Len(ret) = 2
         /\ ret[1].brand_name = "Foo" /\ ret[1].rank = 1
         /\ ret[2].brand_name = "Bar" /\ ret[2].rank = 2

\* Foo, Bar, Foo: the catalog lists Bar first, the ranking Foo
C13_Witness ==
  /\ returned
  /\ args.text = TextFooBarFoo
  /\ args.all_brands = <<Bar(<< <<"b">> >>), Foo(<< <<"a">> >>)>>
  /\ Len(ret) = 2
  /\ ret[1].brand_name = "Foo"
  /\ ret[1].mention_count = 2


CatalogBrand(all_brands, name) == all_brands[CatalogIndex(all_brands, name)]

RECURSIVE OccurringKeywords(_, _)
OccurringKeywords(keywords, text_clean) ==
  IF keywords = <<>> THEN <<>>
  ELSE (IF Occurrences(clean_text_aggressive(Head(keywords)), text_clean) # {}
        THEN <<Head(keywords)>> ELSE <<>>)
       \o OccurringKeywords(Tail(keywords), text_clean)

MentionOf(mention, brand, text_clean) ==
  /\ mention.position = SetMin(BrandOccurrences(brand, text_clean))
  /\ mention.mention_count = SumCounts(brand, Len(brand.keywords), text_clean)
  /\ mention.matched_keywords = OccurringKeywords(brand.keywords, text_clean)

\* C14: for every brand of the ranking, position is the least start offset in
\* the normalized text over the occurrences of all its keywords,
\* mention_count is the number of occurrences summed over its keywords, and
\* matched_keywords lists the keywords that occur, in catalog order.
C14_PositionCountKeywords ==
  returned =>
    \A i \in 1..Len(ret) :
      MentionOf(ret[i], CatalogBrand(args.all_brands, ret[i].brand_name),
                clean_text_aggressive(args.text))

\* the second keyword of Bar stands before its first one, both occur once
C14_Witness ==
  /\ returned
  /\ args.text = <<"a", " ", "B", "a">>
  /\ \E i \in 1..Len(ret) :
       /\ ret[i].brand_name = "Bar"
       /\ ret[i].matched_keywords = << <<"b","a">>, <<"a">> >>
       /\ ret[i].position = 0
       /\ ret[i].mention_count = 2


MatchedKeywordsOf(name) ==
  IF name \in RankedNames
  THEN Range(ret[CHOOSE i \in 1..Len(ret) : ret[i].brand_name = name].matched_keywords)
  ELSE {}

\* the starts of the matches of one keyword are its occurrences: whole-word
\* ones when its normalized form has at most 2 characters, all of them
\* otherwise
MatchesWhereItOccurs(keyword_clean, text_clean) ==
  /\ Range(KeywordMatches(keyword_clean, text_clean))
       = Counted(Occurrences(keyword_clean, text_clean), Len(keyword_clean))
  /\ Len(keyword_clean) <= 2 =>
       \A p \in Range(KeywordMatches(keyword_clean, text_clean)) :
         WholeWordAt(keyword_clean, text_clean, p)
  /\ Len(keyword_clean) > 2 =>
       \A p \in 0..Len(text_clean) :
         SubstringAt(keyword_clean, text_clean, p) =>
           \E m \in Range(KeywordMatches(keyword_clean, text_clean)) :
             m <= p /\ p < m + Len(keyword_clean)

\* C15: a keyword whose normalized form has at most 2 characters matches only
\* where it stands as a whole word of the normalized text, a longer one
\* wherever it stands in it; the keyword CS of Ceska sporitelna does not match
\* inside "CSOB" and matches "CS" standing alone.
C15_ShortKeywordWholeWord ==
  returned =>
    /\ \A b \in 1..Len(args.all_brands) :
         \A k \in 1..Len(args.all_brands[b].keywords) :
           /\ MatchesWhereItOccurs(clean_text_aggressive(args.all_brands[b].keywords[k]),
                                   clean_text_aggressive(args.text))
           /\ args.all_brands[b].keywords[k] \in MatchedKeywordsOf(args.all_brands[b].name)
                <=> KeywordOccurrences(args.all_brands[b], k,
                                       clean_text_aggressive(args.text)) # {}
    /\ (args.all_brands = BRANDS /\ args.text = TextCsob) =>
         RankedNames = {"CSOB"}
    /\ (args.all_brands = BRANDS /\ args.text = TextBoth) =>
         MatchedKeywordsOf("Ceska sporitelna") = {<<"Cv","S">>}

\* "CS, CSOB": the short keyword matches at offset 0 only, the long one at 4
C15_Witness ==
  /\ returned
  /\ args.all_brands = BRANDS
  /\ args.text = TextBoth
  /\ Len(ret) = 2
  /\ ret[1].brand_name = "Ceska sporitelna"
  /\ ret[1].position = 0
  /\ ret[1].mention_count = 1
  /\ ret[2].brand_name = "CSOB"


\* ---------------------------------------------------------------------------
\* clean_text_aggressive on its own (shared_functions.py lines 536-556)
\* ---------------------------------------------------------------------------
MaxNorm == 3

NormAlphabet == {"a", "A", "a'", "l", "l/", "NBSP", "fi_lig", "COMB", ",", " "}

\* the letters that are one letter up to case and diacritics
LetterClasses == {{"a", "A", "a'"}, {"l", "l/"}}

\* ... up to case and the diacritics that Unicode decomposes into a base
\* letter and a combining mark
DecomposableClasses == {{"a", "A", "a'"}}

ClassOf(classes, c) == {c} \cup UNION {K \in classes : c \in K}

RECURSIVE VariantsOf(_)
VariantsOf(text) ==
  IF text = <<>> THEN {<<>>}
  ELSE {<<c>> \o t : c \in ClassOf(LetterClasses, Head(text)), t \in VariantsOf(Tail(text))}

DifferOnlyIn(classes, x, y) ==
  /\ Len(x) = Len(y)
  /\ \A i \in 1..Len(x) : y[i] \in ClassOf(classes, x[i])

Some(text) == [isNone |-> FALSE, text |-> text]

\* a null text, or two texts that differ in case or diacritics at most
NormInputs ==
  {[x |-> None, y |-> None]}
    \cup UNION {{[x |-> Some(s), y |-> Some(t)] : t \in VariantsOf(s)} :
                  s \in SeqsUpTo(NormAlphabet, MaxNorm)}

\* line 538: None and "" are both falsy
Normalize(input) ==
  IF IsNone(input) THEN <<>> ELSE clean_text_aggressive(input.text)

NormInit ==
  /\ args \in NormInputs
  /\ ret = <<>>
  /\ returned = FALSE
  /\ RunInit
  /\ NoLedger
  /\ SaveIdle
  /\ ParIdle

\* clean_text_aggressive(x), clean_text_aggressive of the result, and
\* clean_text_aggressive(y)
CleanTextAggressive ==
  /\ ~returned
  /\ ret' = [once |-> Normalize(args.x),
             twice |-> clean_text_aggressive(Normalize(args.x)),
             other |-> Normalize(args.y)]
  /\ returned' = TRUE
  /\ UNCHANGED <<pc, ledgerVars, retryVars, saveVars, parVars, args>>

NormNext == CleanTextAggressive

SpecNorm == NormInit /\ [][NormNext]_vars

EmptyInput(input) == IsNone(input) \/ input.text = <<>>

TotalAndIdempotent ==
  /\ EmptyInput(args.x) => ret.once = <<>>
  /\ ret.twice = ret.once

FirstAnswering(i) ==
  CHOOSE k \in 1..CONFIG_max_retries :
    /\ ~IsNone(call_provider(args.providers[i], args.ios[i].resps[k]))
    /\ \A j \in 1..(k - 1) : IsNone(call_provider(args.providers[i], args.ios[i].resps[j]))

AnswerOf(i) == args.ios[i].resps[FirstAnswering(i)]

\* the i-th provider answered and the pair was not recorded as failed
Succeeded(i) ==
  /\ ~AlwaysNull(i)
  /\ FailedOf(ret.failed, args.providers[i]) = <<>>

RankOf(ranking, name) ==
  IF \E r \in 1..Len(ranking) : ranking[r].brand_name = name
  THEN <<(CHOOSE r \in 1..Len(ranking) : ranking[r].brand_name = name)>>
  ELSE <<>>

\* the judge's result for the brands of the ranking of an answer text
JudgedDict(text, jresp) ==
  Judge(text, Names(find_all_brand_mentions(text, BRANDS)), jresp).dict

DataRowsAsClaimed(rows, ranking, judged) ==
  /\ Len(rows) = Len(BRANDS)
  /\ \A b \in 1..Len(rows) :
       /\ rows[b].Term_Name = BRANDS[b].name
       /\ rows[b].Text_Presence = 1 <=> RankOf(ranking, BRANDS[b].name) # <<>>
       /\ rows[b].Text_Presence \in {0, 1}
       /\ rows[b].Rank = RankOf(ranking, BRANDS[b].name)
       /\ (RankOf(ranking, BRANDS[b].name) = <<>> \/ BRANDS[b].name \notin DOMAIN judged) =>
            rows[b].Sentiment = "" /\ rows[b].Recommendation = ""

\* C17: for every successful provider answer there is exactly one data row per
\* brand of the catalog, in catalog order; Text_Presence is 1 iff the brand is
\* in the ranking of the answer text, Rank is the brand's rank and blank iff
\* the brand is not in the ranking, and Sentiment and Recommendation are blank
\* whenever the brand is not in the ranking or the judge's result has no entry
\* for it.
C17_DataRowPerBrand ==
  returned =>
    \A i \in 1..Len(args.providers) :
      Succeeded(i) =>
        DataRowsAsClaimed(RowsOf(ret.data, args.providers[i]),
                          find_all_brand_mentions(AnswerOf(i).text, BRANDS),
                          JudgedDict(AnswerOf(i).text, args.ios[i].jresp))

\* the judge's call returns a mapping (possibly empty)
JudgeReturns(i) ==
  args.ios[i].jresp.raised \/ args.ios[i].jresp.status # 200
    \/ args.ios[i].jresp.has_candidates

EndToEnd ==
  /\ Len(args.providers) = 1
  /\ args.providers[1] \in Range(active_providers)
  /\ ~AlwaysNull(1)
  /\ AnswerOf(1).text = TextE2E
  /\ AnswerOf(1).citations = <<>>
  /\ JudgeReturns(1)

request_timeout == 120

RECURSIVE SumSeq(_)
SumSeq(s) == IF s = <<>> THEN 0 ELSE Head(s) + SumSeq(Tail(s))

\* the least time get_ai_response takes: an exchange that times out holds the
\* worker for request_timeout (line 310, line 364), and the retry wrapper
\* sleeps between attempts (line 285)
CallTime(resps, r) ==
  request_timeout * Cardinality({k \in 1..r.calls : resps[k].raised}) + SumSeq(r.sleeps)

RECURSIVE TaskTime(_, _)
TaskTime(n, i) ==
  IF i = 0 THEN 0
  ELSE TaskTime(n, i - 1)
       + CallTime(tasks[n].ios[i].resps,
                  get_ai_response(active_providers[i], tasks[n].ios[i].resps))

\* the collected tasks that took more than 180 seconds to deliver
LateTasks ==
  {n \in TasksIn("collected") : TaskTime(n, Len(active_providers)) > 180}

\* the failed list holds a failure of the query for all providers: one entry
\* naming them all, or one entry per provider
FailedForAll(failed, item) ==
  \/ \E f \in Range(failed) : f.query = item /\ f.provider \notin Range(active_providers)
  \/ \A p \in Range(active_providers) : PairFailed(failed, item, p)

\* C21: a task that does not deliver its result within the result-collection
\* timeout (180 seconds) has a failure covering all providers of its query in
\* the run's failed list and is not counted as successful.
C21_TaskTimeout ==
  /\ \A n \in LateTasks : FailedForAll(all_failed, tasks[n].item)
  /\ successful <= Cardinality(TasksIn("collected") \ LateTasks)

\* ---------------------------------------------------------------------------
\* a store that fails (SpecPar)
\* ---------------------------------------------------------------------------
\* the main run has ended after its tasks were submitted
RunEnded == tasks # <<>> /\ pc \in {"exit0", "exit1"}

\* C22: a write to the store that fails does not end the run: whatever a
\* flush (a threshold flush or the final one) does, process_queries_parallel
\* returns its summary with every FailedAttempt of every task, and the caller
\* merges that list into the failure ledger.
C22_StoreFailureNotFatal ==
  RunEnded =>
    /\ ParReturned
    /\ ledgerExists
    /\ Keys(TaskRows(Len(tasks), "failed")) \subseteq Keys(ledger)

\* ---------------------------------------------------------------------------
\* a judge that fails (SpecPsq)
\* ---------------------------------------------------------------------------
\* C23: whatever the judge's exchange does, get_batch_sentiment returns a
\* mapping, and a provider that answered has its log row, one data row per
\* brand and one url row per citation, and no FailedAttempt.
C23_JudgeFailureNotQueryFailure ==
  returned =>
    \A i \in 1..Len(args.providers) :
      ~AlwaysNull(i) =>
        /\ ~Judge(AnswerOf(i).text, Names(find_all_brand_mentions(AnswerOf(i).text, BRANDS)),
                  args.ios[i].jresp).isNone
        /\ Len(RowsOf(ret.log, args.providers[i])) = 1
        /\ Len(RowsOf(ret.data, args.providers[i])) = Len(BRANDS)
        /\ Len(RowsOf(ret.url, args.providers[i])) = Len(AnswerOf(i).citations)
        /\ FailedOf(ret.failed, args.providers[i]) = <<>>

\* ---------------------------------------------------------------------------
\* get_batch_sentiment on its own (shared_functions.py lines 423-530)
\* ---------------------------------------------------------------------------
MaxArray == 2

\* what the judge may write for one brand; "MISSING" stands for an absent key
JudgeEntries ==
  [brand : {"CSOB", "Ceska sporitelna"},
   sentiment : {"positive", "NEGATIVE", "good", "MISSING"},
   recommendation : {"YES", "no", "ano", "maybe", "MISSING"}]

\* the judge's exchanges: an array of entries, or one of the failures
JudgeExchanges ==
  {[JudgeOk EXCEPT !.array = a] : a \in SeqsUpTo(JudgeEntries, MaxArray)}
    \cup {JudgeSafety, JudgeNoCandidates, JudgeRateLimit,
          [JudgeOk EXCEPT !.raised = TRUE], [JudgeOk EXCEPT !.body = "empty"],
          [JudgeOk EXCEPT !.body = "no_array"], [JudgeOk EXCEPT !.body = "bad_json"]}

JudgeInit ==
  /\ args \in [text : {TextBoth}, mentioned_brands : {<<"Ceska sporitelna", "CSOB">>},
               jresp : JudgeExchanges]
               \cup [text : {TextNone}, mentioned_brands : {<<>>}, jresp : {JudgeOk}]
  /\ ret = <<>>
  /\ returned = FALSE
  /\ RunInit
  /\ NoLedger
  /\ SaveIdle
  /\ ParIdle

\* get_batch_sentiment(text, mentioned_brands, gemini_key), lines 423-530
GetBatchSentiment ==
  /\ ~returned
  /\ ret' = get_batch_sentiment(args.text, args.mentioned_brands, args.jresp)
  /\ returned' = TRUE
  /\ UNCHANGED <<pc, ledgerVars, retryVars, saveVars, parVars, args>>

JudgeNext == GetBatchSentiment

SpecJudge == JudgeInit /\ [][JudgeNext]_vars

\* the judge's last word on a brand
LastEntry(array, brand) ==
  array[CHOOSE i \in 1..Len(array) :
          /\ array[i].brand = brand
          /\ \A j \in (i + 1)..Len(array) : array[j].brand # brand]

SentimentAsClaimed(raw, sentiment) ==
  /\ sentiment \in {"POSITIVE", "NEGATIVE", "NEUTRAL"}
  /\ raw \in {"positive", "POSITIVE"} => sentiment = "POSITIVE"
  /\ raw \in {"negative", "NEGATIVE"} => sentiment = "NEGATIVE"
  /\ raw \notin {"positive", "POSITIVE", "negative", "NEGATIVE"} => sentiment = "NEUTRAL"

RecommendationAsClaimed(raw, recommendation) ==
  /\ recommendation \in {"ANO", "NE"}
  /\ raw \in {"YES", "yes", "ano", "ANO"} => recommendation = "ANO"
  /\ raw \notin {"YES", "yes", "ano", "ANO"} => recommendation = "NE"

\* C24: every entry of the mapping the judge call returns has a sentiment in
\* {POSITIVE, NEGATIVE, NEUTRAL} and a recommendation in {ANO, NE}; a
\* sentiment the judge wrote that is none of the three becomes NEUTRAL, a
\* recommendation that is neither yes nor no becomes NE.
C24_JudgeValuesNormalized ==
  (returned /\ ~ret.isNone) =>
    \A brand \in DOMAIN ret.dict :
      /\ SentimentAsClaimed(LastEntry(args.jresp.array, brand).sentiment,
                            ret.dict[brand].sentiment)
      /\ RecommendationAsClaimed(LastEntry(args.jresp.array, brand).recommendation,
                                 ret.dict[brand].recommendation)

\* "good" and "maybe" are replaced, "positive" and "YES" are kept
C24_Witness ==
  /\ returned
  /\ ~ret.isNone
  /\ args.jresp.array
       = <<[brand |-> "CSOB", sentiment |-> "good", recommendation |-> "maybe"],
           [brand |-> "Ceska sporitelna", sentiment |-> "positive", recommendation |-> "YES"]>>
  /\ ret.dict["CSOB"] = [sentiment |-> "NEUTRAL", recommendation |-> "NE"]
  /\ ret.dict["Ceska sporitelna"] = [sentiment |-> "POSITIVE", recommendation |-> "ANO"]

\* ---------------------------------------------------------------------------
\* citation attribution (SpecPsq)
\* ---------------------------------------------------------------------------
\* the brands with a keyword whose normalized form stands in the normalized url
NormalizedOwners(url, brands) ==
  {b \in 1..Len(brands) :
     \E k \in 1..Len(brands[b].keywords) :
       \E p \in 0..Len(clean_text_aggressive(url)) :
         SubstringAt(clean_text_aggressive(brands[b].keywords[k]),
                     clean_text_aggressive(url), p)}

\* the name of the first of them in catalog order, "" when there is none
OwnerAsClaimed(url, brands) ==
  IF NormalizedOwners(url, brands) = {} THEN ""
  ELSE brands[SetMin(NormalizedOwners(url, brands))].name

\* C25: the owner of a cited url is the first brand in catalog order one of
\* whose keywords, normalized as answer text is, occurs in the url normalized
\* the same way; the url row's owner is blank when there is no such brand.
C25_UrlOwner ==
  returned =>
    \A i \in 1..Len(args.providers) :
      Succeeded(i) =>
        /\ Len(RowsOf(ret.url, args.providers[i])) = Len(AnswerOf(i).citations)
        /\ \A c \in 1..Len(AnswerOf(i).citations) :
             /\ RowsOf(ret.url, args.providers[i])[c].URL = AnswerOf(i).citations[c]
             /\ RowsOf(ret.url, args.providers[i])[c].URL_Name
                  = OwnerAsClaimed(AnswerOf(i).citations[c], BRANDS)

\* ---------------------------------------------------------------------------
\* the size of the accumulators (SpecPar)
\* ---------------------------------------------------------------------------
\* C26: whenever the orchestrator has finished a turn of its collecting loop,
\* fewer than batch_size log rows are accumulated and not yet written, so that
\* at no moment batch_size plus the number of providers or more are.
C26_BoundedUnflushed ==
  pc = "pool" =>
    /\ Len(all_log) < batch_size
    /\ Len(all_log) < batch_size + Len(active_providers)

\* ---------------------------------------------------------------------------
\* retry run after retry run, against providers that are down for good
\* ---------------------------------------------------------------------------
\* every exchange of every call is an HTTP 503
DownIOs == {[resps |-> FailThenOk(CONFIG_max_retries, Resp503, Resp503), jresp |-> JudgeOk]}

RetryStepDown == RetryStepWith(DownIOs)

\* retry_run.py is started again (by its schedule) once the previous run has
\* ended; the ledger file and the store are what the previous run left
NextRetryRun ==
  /\ pc \in {"returned", "saved", "crashed", "exit1"}
  /\ pc' = "idle"
  /\ failed_items' = <<>>
  /\ queries_to_retry' = <<>>
  /\ idx' = 1
  /\ all_results' = EmptyRun
  /\ calls' = <<>>
  /\ UNCHANGED <<ledgerVars, sheets, saveVars, callVars, parVars>>

RunsNext == RetryStart \/ RetryStepDown \/ RetrySave \/ NextRetryRun

\* the runs keep being started and each run goes on to its end
SpecRuns == Init /\ [][RunsNext]_vars /\ WF_vars(RunsNext)

\* every entry of the ledger is at the ceiling, and no provider is called
AllGivenUp ==
  /\ \A i \in 1..Len(ledger) : skip_entry(ledger[i].retry_count)
  /\ calls = <<>>

\* C27: when every call of a pair fails, then, retry runs being completed
\* again and again, from some run on the pair's retry_count in the ledger is
\* at the ceiling of 10 and no retry run calls a provider for it any more.
C27_EventuallyGivenUp == ([]<>(pc = "saved")) => <>[]AllGivenUp

\* ---------------------------------------------------------------------------
\* process_queries_parallel step by step: the collecting thread's flushes are
\* taken apart into acquiring sheets_lock, opening the workbook, the three
\* appends and the release, and the workers run in between
\* ---------------------------------------------------------------------------

\* where the collecting thread stands inside a flush: "thr" is the threshold
\* flush of lines 864-867, "fin" the final flush of lines 873-875
FlushPc ==
  [thr |-> [acquire |-> "thr_acquire", init |-> "thr_init", log |-> "thr_log",
            data |-> "thr_data", url |-> "thr_url", release |-> "thr_release"],
   fin |-> [acquire |-> "fin_acquire", init |-> "fin_init", log |-> "fin_log",
            data |-> "fin_data", url |-> "fin_url", release |-> "fin_release"]]

FlushKinds == {"thr", "fin"}

SheetNames == {"log", "data", "url"}

AfterStep == [init |-> "log", log |-> "data", data |-> "url", url |-> "release"]

\* the executor of line 846 is alive while the loop of line 851 runs, the
\* threshold flush included
PoolPcs == {"pool"} \cup {FlushPc.thr[st] : st \in DOMAIN FlushPc.thr}

\* the positions between "with sheets_lock:" and the end of its block
HoldingPcs ==
  {FlushPc[kind][st] : kind \in FlushKinds, st \in {"init", "log", "data", "url", "release"}}

Accumulator(sheet) ==
  CASE sheet = "log" -> all_log
    [] sheet = "data" -> all_data
    [] sheet = "url" -> all_url

WorkerStart(n) == TaskStartAt(PoolPcs, n)

WorkerFinish(n) == TaskFinishAt(PoolPcs, n)

\* lines 852-864: the result of a finished task joins the accumulators, and
\* the threshold is tested
CollectResult(n) ==
  /\ pc = "pool"
  /\ n \in TasksIn("done")
  /\ all_log' = all_log \o tasks[n].result.log
  /\ all_data' = all_data \o tasks[n].result.data
  /\ all_url' = all_url \o tasks[n].result.url
  /\ all_failed' = all_failed \o tasks[n].result.failed
  /\ successful' = IF tasks[n].result.failed = <<>> THEN successful + 1 ELSE successful
  /\ tasks' = [tasks EXCEPT ![n].state = "collected"]
  /\ pc' = IF Len(all_log') >= batch_size THEN FlushPc.thr.acquire ELSE "pool"
  /\ UNCHANGED <<ledgerVars, retryVars, saveVars, callVars, results, store_raised,
                 sheets_lock>>

\* lines 873-881 after the loop: without rows left the function returns
LoopDone ==
  /\ AllCollected
  /\ IF all_log = <<>> /\ all_data = <<>> /\ all_url = <<>>
     THEN /\ pc' = "ledger_save"
          /\ results' = [successful |-> successful, failed |-> all_failed,
                         failed_count |-> Len(all_failed)]
     ELSE /\ pc' = FlushPc.fin.acquire
          /\ UNCHANGED results
  /\ UNCHANGED <<ledgerVars, retryVars, saveVars, callVars, tasks, all_log, all_data,
                 all_url, all_failed, successful, store_raised, sheets_lock>>

\* mutant: the flush starts without taking the lock
Acquire_free(kind) ==
  /\ pc = FlushPc[kind].acquire
  /\ pc' = FlushPc[kind].init
  /\ UNCHANGED <<ledgerVars, retryVars, saveVars, callVars, parVars>>

\* "with sheets_lock:", lines 865 and 874: a free lock is taken
Acquire(kind) ==
  /\ pc = FlushPc[kind].acquire
  /\ ~sheets_lock
  /\ sheets_lock' = TRUE
  /\ pc' = IF all_log = <<>> /\ all_data = <<>> /\ all_url = <<>>
           THEN FlushPc[kind].release
           ELSE FlushPc[kind].init
  /\ UNCHANGED <<ledgerVars, retryVars, saveVars, callVars, tasks, all_log, all_data,
                 all_url, all_failed, successful, results, store_raised>>

\* an exception leaves the with block, which releases the lock; line 869
\* swallows it inside the loop, and after the loop main_run.py exits with 1
Raised(kind) ==
  /\ sheets_lock' = FALSE
  /\ store_raised' = TRUE
  /\ pc' = IF kind = "thr" THEN "pool" ELSE "exit1"

\* init_google_sheets, line 210
OpenWorkbook(kind) ==
  /\ pc = FlushPc[kind].init
  /\ \E ok \in BOOLEAN :
       IF ok
       THEN pc' = FlushPc[kind].log /\ UNCHANGED <<sheets_lock, store_raised>>
       ELSE Raised(kind)
  /\ UNCHANGED <<ledgerVars, retryVars, saveVars, callVars, tasks, all_log, all_data,
                 all_url, all_failed, successful, results>>

\* append_rows to one sheet, lines 213-228, 232-248 and 252-266
AppendRows(kind, sheet) ==
  /\ pc = FlushPc[kind][sheet]
  /\ IF Accumulator(sheet) = <<>>
     THEN /\ pc' = FlushPc[kind][AfterStep[sheet]]
          /\ UNCHANGED <<sheets, sheets_lock, store_raised>>
     ELSE \E ok \in BOOLEAN :
            IF ok
            THEN /\ sheets' = [sheets EXCEPT ![sheet] = @ \o Accumulator(sheet)]
                 /\ pc' = FlushPc[kind][AfterStep[sheet]]
                 /\ UNCHANGED <<sheets_lock, store_raised>>
            ELSE Raised(kind) /\ UNCHANGED sheets
  /\ UNCHANGED <<ledgerVars, failed_items, queries_to_retry, idx, all_results, calls,
                 saveVars, callVars, tasks, all_log, all_data, all_url, all_failed,
                 successful, results>>

\* the end of the with block; line 867 clears the accumulators in the loop,
\* lines 877-881 return after the loop
Release(kind) ==
  /\ pc = FlushPc[kind].release
  /\ sheets_lock' = FALSE
  /\ IF kind = "thr"
     THEN /\ all_log' = after_flush(all_log)
          /\ all_data' = after_flush(all_data)
          /\ all_url' = after_flush(all_url)
          /\ pc' = "pool"
          /\ UNCHANGED results
     ELSE /\ pc' = "ledger_save"
          /\ results' = [successful |-> successful, failed |-> all_failed,
                         failed_count |-> Len(all_failed)]
          /\ UNCHANGED <<all_log, all_data, all_url>>
  /\ UNCHANGED <<ledgerVars, retryVars, saveVars, callVars, tasks, all_failed,
                 successful, store_raised>>

LockNext ==
  \/ MainStart
  \/ \E n \in 1..NumQueries : WorkerStart(n)
  \/ \E n \in 1..NumQueries : WorkerFinish(n)
  \/ \E n \in 1..NumQueries : CollectResult(n)
  \/ LoopDone
  \/ \E kind \in FlushKinds : Acquire(kind)
  \/ \E kind \in FlushKinds : OpenWorkbook(kind)
  \/ \E kind \in FlushKinds, sheet \in SheetNames : AppendRows(kind, sheet)
  \/ \E kind \in FlushKinds : Release(kind)
  \/ MainFinish

SpecLock == ParInit /\ [][LockNext]_vars

\* a step of a worker thread: a task starts or finishes running
WorkerStep ==
  \E n \in DOMAIN tasks :
    /\ tasks' # <<>>
    /\ tasks'[n].state # tasks[n].state
    /\ tasks'[n].state \in {"running", "done"}

\* C28: the store is written only under sheets_lock, which is held exactly
\* from the start of a flush to its end, so the threshold flushes and the final
\* flush of one run never overlap; and a worker's step leaves the accumulators
\* and the store as they were
C28_FlushesExclusive ==
  /\ [](sheets_lock <=> pc \in HoldingPcs)
  /\ [][sheets' # sheets => sheets_lock /\ sheets_lock']_vars
  /\ [][WorkerStep => UNCHANGED <<all_log, all_data, all_url, sheets, sheets_lock>>]_vars

\* a threshold flush has written the log sheet and holds the lock while a
\* worker is running a task
C28_Witness ==
  /\ pc = FlushPc.thr.data
  /\ sheets_lock
  /\ sheets.log # <<>>
  /\ TasksIn("running") # {}

\* ---------------------------------------------------------------------------
\* the order of a task's rows in the store
\* ---------------------------------------------------------------------------

\* the rows of task n among rows, in the order they stand there
OwnRows(rows, n) == SelectSeq(rows, LAMBDA r : r.Query = tasks[n].item.query)

\* held is block written a whole number of times, one after the other
RECURSIVE IsRepetition(_, _)
IsRepetition(held, block) ==
  IF held = <<>> THEN TRUE
  ELSE /\ block # <<>>
       /\ Len(held) >= Len(block)
       /\ SubSeq(held, 1, Len(block)) = block
       /\ IsRepetition(SubSeq(held, Len(block) + 1, Len(held)), block)

\* the rows go provider by provider in the order of the provider list
ProviderOrder(rows) ==
  \A i, j \in 1..Len(rows) :
    i < j => IndexOf(active_providers, rows[i].Provider)
               <= IndexOf(active_providers, rows[j].Provider)

\* the rows of task n in one table, written and still accumulated, are in the
\* order process_single_query returned them; without a raised write they are
\* there once while the loop runs, and written once after the final flush
OrderKept(n, sheet) ==
  /\ ProviderOrder(tasks[n].result[sheet])
  /\ IsRepetition(OwnRows(sheets[sheet], n), tasks[n].result[sheet])
  /\ IsRepetition(OwnRows(sheets[sheet] \o Accumulator(sheet), n), tasks[n].result[sheet])
  /\ (~store_raised /\ pc = "pool") =>
       OwnRows(sheets[sheet] \o Accumulator(sheet), n) = tasks[n].result[sheet]
  /\ (~store_raised /\ ParReturned) => OwnRows(sheets[sheet], n) = tasks[n].result[sheet]

\* C29: under every completion order of the tasks and every placement of the
\* flushes, in each table the rows of a collected task stand in the order its
\* process_single_query call returned them, provider by provider in the order
\* of the provider list (a write that raised and is repeated writes them again
\* in the same order); rows of different tasks may stand in either order
C29_TaskOrderKept ==
  \A n \in TasksIn("collected") : \A sheet \in SheetNames : OrderKept(n, sheet)

\* both tasks were answered by both providers, the second task was collected
\* and flushed before the first, and everything is written
C29_Witness ==
  /\ pc = "ledger_save"
  /\ ~store_raised
  /\ Len(sheets.log) = 2 * Len(active_providers)
  /\ sheets.log[1].Query = LoadedQueries[2].query
  /\ sheets.log[1].Provider # sheets.log[2].Provider
  /\ Len(sheets.data) > Len(sheets.log)

\* ---------------------------------------------------------------------------
\* a sequence of save_failed_queries calls, each with its own new failures, as
\* main_run.py line 83 and retry_run.py line 145 make them one after the other
\* ---------------------------------------------------------------------------
LedgerInit ==
  /\ ledgerExists \in BOOLEAN
  /\ ledger \in LedgerFiles(SaveCounts)
  /\ ~ledgerExists => ledger = <<>>
  /\ SaveIdle
  /\ RunInit
  /\ CallIdle
  /\ ParIdle

\* save_failed_queries(failed, filepath), lines 887-915
SaveCall(failed) ==
  /\ saves < MaxSaves
  /\ new_failed' = failed
  /\ prev_ledger' = IF ledgerExists THEN ledger ELSE <<>>
  /\ ledger' = save_failed_queries(failed, prev_ledger')
  /\ ledgerExists' = TRUE
  /\ saves' = saves + 1
  /\ UNCHANGED <<pc, retryVars, callVars, parVars>>

LedgerNext == \E failed \in SeqsUpTo(LedgerEntries(SaveCounts), MaxNewFailed) : SaveCall(failed)

SpecLedger == LedgerInit /\ [][LedgerNext]_vars

\* C30: after every save of a sequence of saves, the ledger file holds at most
\* one entry per (query.text, provider) key, and every key the file held
\* before the save, and every key of the new failures, is still in it
C30_LedgerShape ==
  saves >= 1 =>
    /\ ledgerExists
    /\ DistinctKeys(ledger)
    /\ Keys(prev_ledger) \subseteq Keys(ledger)
    /\ Keys(new_failed) \subseteq Keys(ledger)

\* the second save of a sequence met a file with entries and was given, twice,
\* one key the file did not have
C30_Witness ==
  /\ saves = 2
  /\ prev_ledger # <<>>
  /\ Len(new_failed) = 2
  /\ Keys(new_failed) \cap Keys(prev_ledger) = {}
  /\ ~DistinctKeys(new_failed)
  /\ Len(ledger) = Len(prev_ledger) + 1

====
